---- MODULE Spec2Model ----
(***************************************************************************)
(* Model of src/tools/pegasus-kickstart/monitoring.c: the monitoring relay *)
(* of pegasus-kickstart.  The host thread calls start_monitoring_thread    *)
(* and stop_monitoring_thread; the relay thread runs                       *)
(* monitoring_thread_func.  C character arrays are modelled byte by byte:  *)
(* a buffer is the sequence of its bytes up to its last non-NUL byte, all  *)
(* bytes behind that being NUL.                                            *)
(***************************************************************************)
EXTENDS Integers, Sequences, FiniteSets, TLC

(* ------------------------------ bounds --------------------------------- *)

\* The number of client connections made during one relay lifetime.
MaxConns == 2

\* MSG_AGGR_FACTOR is a compile-time parameter of the relay (1 in the
\* source as shipped); the model covers the builds with 1..MaxAggrFactor.
MaxAggrFactor == 2

(* --------------------------- program constants ------------------------- *)

\* <stdio.h>'s BUFSIZ, at the smallest value ISO C allows.
BUFSIZ == 256

\* listen(listenfd, 1): the backlog of the listening socket.
Backlog == 1

(* ------------------------------ characters ----------------------------- *)

NUL == "\\0"
NL == "\n"
\* The null pointer, where a string (a sequence of characters) is expected.
NULL == <<"NULL">>

Min(a, b) == IF a < b THEN a ELSE b

\* n copies of character c.
Rep(c, n) == [i \in 1..n |-> c]

\* The first n elements of s (all of s when it is shorter).
Take(s, n) == SubSeq(s, 1, Min(n, Len(s)))

IsPrefix(p, s) == Len(p) <= Len(s) /\ SubSeq(s, 1, Len(p)) = p

\* The index of the first c in s, 0 when s holds none.
FirstIndex(s, c) ==
    IF \E i \in 1..Len(s) : s[i] = c
    THEN CHOOSE i \in 1..Len(s) : s[i] = c /\ \A j \in 1..(i - 1) : s[j] # c
    ELSE 0

\* A buffer with its trailing NUL bytes dropped (the canonical form).
RECURSIVE Trim(_)
Trim(b) ==
    IF b = <<>> \/ b[Len(b)] # NUL THEN b ELSE Trim(SubSeq(b, 1, Len(b) - 1))

\* The C string held at the start of buffer b: its bytes before the first NUL.
CStr(b) ==
    LET n == FirstIndex(b, NUL)
    IN  IF n = 0 THEN b ELSE SubSeq(b, 1, n - 1)

\* Buffer b with the bytes of s stored from (0-based) offset off on: the
\* bytes before and behind them stay as they were.
Store(b, off, s) ==
    LET before == IF Len(b) >= off THEN SubSeq(b, 1, off)
                  ELSE b \o Rep(NUL, off - Len(b))
        behind == IF Len(b) > off + Len(s) THEN SubSeq(b, off + Len(s) + 1, Len(b))
                  ELSE <<>>
    IN  Trim(before \o s \o behind)

(* ------------------------------- state --------------------------------- *)

VARIABLES
    factor,         \* MSG_AGGR_FACTOR of this build
    env,            \* the process environment: key -> value, NULL when unset
    hpc,            \* host thread: where it is in start/stop
    start_rc,       \* <<return value>> of start_monitoring_thread, <<>> before
    stop_rc,        \* <<return value>> of stop_monitoring_thread, <<>> before
    sock,           \* the listening socket: "none", "listening", "closed"
    signal_pipe,    \* [rd, wr: "unset"/"open"/"closed", bytes: unread bytes]
    ctx,            \* the MonitoringThreadContext (all zero as calloc leaves it)
    ctx_heap,       \* "none", "allocated", "freed"
    tpc,            \* relay thread: where it is in monitoring_thread_func
    msg_counter,
    aggr_msg_buffer_offset,
    aggr_msg_buffer,
    line,           \* char line[BUFSIZ]: never initialised, never cleared
    incoming_socket,\* <<the accepted connection>>, <<>> when none is open
    warned,         \* the "leaving some clients behind" warning was printed
    sent,           \* the calls of send_msg_to_mq, in order
    pending,        \* connections waiting in the listen queue
    nconn,          \* connections made so far
    buffered,       \* history: the records counted in msg_counter
    handled,        \* history: <<how the connection closed last was handled>>
    left_by,        \* history: what made the relay leave its loop, "no" before
    conn_log,       \* history: the accept and close calls on connections
    appended,       \* history: the connections whose record was counted
    accept_errno    \* history: how the last accept ended, "none" for success

vars == <<factor, env, hpc, start_rc, stop_rc, sock, signal_pipe, ctx,
          ctx_heap, tpc, msg_counter, aggr_msg_buffer_offset, aggr_msg_buffer,
          line, incoming_socket, warned, sent, pending, nconn, buffered,
          handled, left_by, conn_log, appended, accept_errno>>

hostVars == <<env, hpc, start_rc, stop_rc, signal_pipe, ctx>>
relayVars == <<msg_counter, aggr_msg_buffer_offset, aggr_msg_buffer, line,
               incoming_socket, warned, sent, buffered, handled, conn_log,
               appended>>

(* ---------------------------- the environment -------------------------- *)

\* The keys initialize_monitoring_context requires, in the order it reads them.
RequiredKeys == <<"KICKSTART_MON_ENDPOINT_URL", "KICKSTART_MON_ENDPOINT_CREDENTIALS",
                  "PEGASUS_WF_UUID", "PEGASUS_WF_LABEL", "PEGASUS_DAG_JOB_ID",
                  "CONDOR_JOBID">>

OptionalKeys == <<"PEGASUS_XFORMATION", "PEGASUS_TASK_ID">>

\* The keys start_monitoring_thread publishes for the child process.
PublishedKeys == {"KICKSTART_MON", "KICKSTART_MON_INTERVAL", "KICKSTART_MON_PID",
                  "KICKSTART_MON_HOST", "KICKSTART_MON_PORT"}

InputKeys == {RequiredKeys[i] : i \in 1..Len(RequiredKeys)}
                \cup {OptionalKeys[i] : i \in 1..Len(OptionalKeys)}

\* The value each input key has when it is set.
KeyValue(k) ==
    CASE k = "KICKSTART_MON_ENDPOINT_URL" -> <<"h">>
      [] k = "KICKSTART_MON_ENDPOINT_CREDENTIALS" -> <<"p">>
      [] k = "PEGASUS_WF_UUID" -> <<"u">>
      [] k = "PEGASUS_WF_LABEL" -> <<"l">>
      [] k = "PEGASUS_DAG_JOB_ID" -> <<"d">>
      [] k = "CONDOR_JOBID" -> <<"c">>
      [] k = "PEGASUS_XFORMATION" -> <<"x">>
      [] k = "PEGASUS_TASK_ID" -> <<"t">>

\* The environments the host may be started in: every key set, or one of
\* the keys unset.
UnsetChoices == {{}} \cup {{k} : k \in InputKeys}

EnvWithout(unset) ==
    [k \in InputKeys \cup PublishedKeys |->
        IF k \in InputKeys /\ k \notin unset THEN KeyValue(k) ELSE NULL]

(* ------------------- initialize_monitoring_context --------------------- *)

EmptyContext ==
    [url |-> NULL, credentials |-> NULL, wf_label |-> NULL, wf_uuid |-> NULL,
     dag_job_id |-> NULL, condor_job_id |-> NULL, xformation |-> NULL,
     task_id |-> NULL, socket |-> 0]

\* The field of the context each key is copied to.
FieldOf(k) ==
    CASE k = "KICKSTART_MON_ENDPOINT_URL" -> "url"
      [] k = "KICKSTART_MON_ENDPOINT_CREDENTIALS" -> "credentials"
      [] k = "PEGASUS_WF_UUID" -> "wf_uuid"
      [] k = "PEGASUS_WF_LABEL" -> "wf_label"
      [] k = "PEGASUS_DAG_JOB_ID" -> "dag_job_id"
      [] k = "CONDOR_JOBID" -> "condor_job_id"
      [] k = "PEGASUS_XFORMATION" -> "xformation"
      [] k = "PEGASUS_TASK_ID" -> "task_id"

\* The required keys are read in order; the first one unset ends the call
\* with -1, the fields read before it already filled in.
RECURSIVE ReadRequired(_, _, _)
ReadRequired(e, c, i) ==
    IF i > Len(RequiredKeys) THEN [rc |-> 0, ctx |-> c]
    ELSE IF e[RequiredKeys[i]] = NULL THEN [rc |-> -1, ctx |-> c]
    ELSE ReadRequired(e, [c EXCEPT ![FieldOf(RequiredKeys[i])] = e[RequiredKeys[i]]], i + 1)

\* initialize_monitoring_context(ctx): [rc, ctx].  An unset optional key
\* leaves a NULL pointer in its field.
initialize_monitoring_context(e, c) ==
    LET req == ReadRequired(e, c, 1)
    IN  IF req.rc < 0 THEN req
        ELSE [rc |-> 0,
              ctx |-> [req.ctx EXCEPT !.xformation = e["PEGASUS_XFORMATION"],
                                      !.task_id = e["PEGASUS_TASK_ID"]]]

(* ----------------------- create_ephemeral_endpoint ---------------------- *)

\* The system calls of start_monitoring_thread that may fail.
StartFaults == {"none", "socket", "bind", "listen", "getsockname", "gethostname",
                "pipe", "pthread_create"}

\* create_ephemeral_endpoint: [rc, sock], sock the state the socket it opened
\* is left in.  A failure of bind, listen or getsockname goes through the
\* error label and closes the socket; a failure of gethostname returns
\* without closing it.
create_ephemeral_endpoint(fault) ==
    CASE fault = "socket" -> [rc |-> -1, sock |-> "none"]
      [] fault \in {"bind", "listen", "getsockname"} -> [rc |-> -1, sock |-> "closed"]
      [] fault = "gethostname" -> [rc |-> -1, sock |-> "listening"]
      [] OTHER -> [rc |-> 3, sock |-> "listening"]

(* ------------------------------ formatting ----------------------------- *)

Digit(d) ==
    CASE d = 0 -> "0" [] d = 1 -> "1" [] d = 2 -> "2" [] d = 3 -> "3" [] d = 4 -> "4"
      [] d = 5 -> "5" [] d = 6 -> "6" [] d = 7 -> "7" [] d = 8 -> "8" [] d = 9 -> "9"

\* printf's %d of a natural number.
RECURSIVE Dec(_)
Dec(n) == IF n < 10 THEN <<Digit(n)>> ELSE Dec(n \div 10) \o <<Digit(n % 10)>>

\* printf's %s: the string, or what glibc prints for a NULL argument.  (The
\* call is undefined for NULL; a libc that dereferences the pointer has
\* already ended the process at the first printerr of the relay thread.)
Str(v) == IF v = NULL THEN <<"(", "n", "u", "l", "l", ")">> ELSE v

\* snprintf(buf, size, ...) of the formatted text: at most size - 1
\* characters are stored, and the full length is returned.
Snprintf(size, text) == [stored |-> Take(text, size - 1), n |-> Len(text)]

\* The text of
\* "%s wf_uuid=%s wf_label=%s dag_job_id=%s condor_job_id=%s xformation=%s task_id=%s".
EnrichFormat(l, c) ==
    l \o <<" ", "w", "f", "_", "u", "u", "i", "d", "=">> \o Str(c.wf_uuid)
      \o <<" ", "w", "f", "_", "l", "a", "b", "e", "l", "=">> \o Str(c.wf_label)
      \o <<" ", "d", "a", "g", "_", "j", "o", "b", "_", "i", "d", "=">> \o Str(c.dag_job_id)
      \o <<" ", "c", "o", "n", "d", "o", "r", "_", "j", "o", "b", "_", "i", "d", "=">>
      \o Str(c.condor_job_id)
      \o <<" ", "x", "f", "o", "r", "m", "a", "t", "i", "o", "n", "=">> \o Str(c.xformation)
      \o <<" ", "t", "a", "s", "k", "_", "i", "d", "=">> \o Str(c.task_id)

\* The "%s:delim1:" of the aggregation.
Delim == <<":", "d", "e", "l", "i", "m", "1", ":">>

\* enriched_line after the snprintf of line 300.
EnrichedLine(l, c) == Snprintf(BUFSIZ, EnrichFormat(CStr(l), c)).stored

\* The line buffer after recv stored the delivered bytes at its start.
Recv(l, bytes) == Store(l, 0, bytes)

\* The line buffer after its first newline, if it has one, was replaced by
\* the terminating character.
CutAtNewline(l) ==
    LET n == FirstIndex(CStr(l), NL)
    IN  IF n = 0 THEN l ELSE Trim([l EXCEPT ![n] = NUL])

\* strstr(line, "ts=") == line
StartsWithTs(l) == IsPrefix(<<"t", "s", "=">>, CStr(l))

(* ------------------------------- clients ------------------------------- *)

\* The context of a host started with every key set.
FullContext == initialize_monitoring_context(EnvWithout({}), EmptyContext).ctx

\* The longest line the aggregation of lines 304-308 still accepts when every
\* key is set: its "%s:delim1:" text is exactly BUFSIZ characters long.
LongestAccepted == BUFSIZ - Len(Delim) - Len(EnrichFormat(<<>>, FullContext))

\* A line "ts=aaa...a" of n characters.
LongLine(n) == <<"t", "s", "=">> \o Rep("a", n - 3)

\* What a client may send on its connection: the sequence of deliveries
\* (each recv returns one delivery); no delivery at all is a client that
\* connects and closes.
Payloads ==
    { << <<"t", "s", "=", "1", NL>> >>,
      << <<"t", "s", "=", "2", "2", NL>> >>,
      << <<"t", "s", "=", "4">>, <<"4", NL>> >>,
      << <<"x", NL>> >>,
      << <<"t">> >>,
      << >>,
      << LongLine(LongestAccepted) \o <<NL>> >>,
      << LongLine(BUFSIZ - 2) \o <<NL>> >> }

RECURSIVE Concat(_)
Concat(ds) == IF ds = <<>> THEN <<>> ELSE Head(ds) \o Concat(Tail(ds))

\* The line a client sent: all its bytes up to the first newline, or up to
\* the end of the connection.
RawLine(ds) ==
    LET all == Concat(ds)
        n == FirstIndex(all, NL)
    IN  IF n = 0 THEN all ELSE SubSeq(all, 1, n - 1)

\* What the stack may hold where line[] is placed, before the first recv.
StackGarbage == {<<>>, <<"t", "s", "=", "?">>}

(* ------------------------------- Init ---------------------------------- *)

Init ==
    /\ factor \in 1..MaxAggrFactor
    /\ \E unset \in UnsetChoices : env = EnvWithout(unset)
    /\ hpc = "idle"
    /\ start_rc = <<>>
    /\ stop_rc = <<>>
    /\ sock = "none"
    /\ signal_pipe = [rd |-> "unset", wr |-> "unset", bytes |-> 0]
    /\ ctx = EmptyContext
    /\ ctx_heap = "none"
    /\ tpc = "none"
    /\ msg_counter = 0
    /\ aggr_msg_buffer_offset = 0
    /\ aggr_msg_buffer = <<>>
    /\ line \in StackGarbage
    /\ incoming_socket = <<>>
    /\ warned = FALSE
    /\ sent = <<>>
    /\ pending = <<>>
    /\ nconn = 0
    /\ buffered = <<>>
    /\ handled = <<>>
    /\ left_by = "no"
    /\ conn_log = <<>>
    /\ appended = <<>>
    /\ accept_errno = "none"

(* ------------------------- start_monitoring_thread --------------------- *)

\* The environment after the five setenv calls of lines 349-356.
Publish(e, interval, pid, host, port) ==
    [e EXCEPT !["KICKSTART_MON"] = <<"e", "n", "a", "b", "l", "e", "d">>,
              !["KICKSTART_MON_INTERVAL"] = Dec(interval),
              !["KICKSTART_MON_PID"] = Dec(pid),
              !["KICKSTART_MON_HOST"] = host,
              !["KICKSTART_MON_PORT"] = Dec(port)]

\* start_monitoring_thread(interval), with the system call that fails in it
\* (if any).  Each failure returns at once, leaving what was done before it.
Start(interval, fault) ==
    LET ep == create_ephemeral_endpoint(fault)
        init == initialize_monitoring_context(env, EmptyContext)
    IN  /\ hpc = "idle"
        /\ sock' = ep.sock
        /\ IF ep.rc < 0
           THEN /\ start_rc' = <<-1>>
                /\ hpc' = "start_failed"
                /\ UNCHANGED <<env, ctx, ctx_heap, signal_pipe, tpc>>
           ELSE /\ env' = Publish(env, interval, 4242, <<"k", "s">>, 40000)
                /\ ctx_heap' = "allocated"
                /\ IF init.rc < 0
                   THEN /\ ctx' = init.ctx
                        /\ start_rc' = <<-1>>
                        /\ hpc' = "start_failed"
                        /\ UNCHANGED <<signal_pipe, tpc>>
                   ELSE /\ ctx' = [init.ctx EXCEPT !.socket = ep.rc]
                        /\ IF fault = "pipe"
                           THEN /\ start_rc' = <<-1>>
                                /\ hpc' = "start_failed"
                                /\ UNCHANGED <<signal_pipe, tpc>>
                           ELSE /\ signal_pipe' = [rd |-> "open", wr |-> "open", bytes |-> 0]
                                /\ IF fault = "pthread_create"
                                   THEN /\ start_rc' = <<11>>
                                        /\ hpc' = "start_failed"
                                        /\ UNCHANGED tpc
                                   ELSE /\ start_rc' = <<0>>
                                        /\ hpc' = "running"
                                        /\ tpc' = "start"
        /\ UNCHANGED <<stop_rc, pending, nconn>>
        /\ UNCHANGED relayVars
        /\ UNCHANGED <<factor, left_by, accept_errno>>

(* ------------------------- monitoring_thread_func ---------------------- *)

\* Lines 222-237: the relay prints its context with %s, among it the two
\* optional fields, and initialises its counters.
RelayBegin ==
    /\ tpc = "start"
    /\ tpc' = "poll"
    /\ msg_counter' = 0
    /\ aggr_msg_buffer_offset' = 0
    /\ UNCHANGED <<aggr_msg_buffer, line, incoming_socket, warned, sent, buffered,
                   handled, conn_log, appended>>
    /\ UNCHANGED <<factor, sock, ctx_heap, pending, nconn, left_by, accept_errno>>
    /\ UNCHANGED hostVars

\* Passing a NULL pointer for %s is undefined: a libc that dereferences it
\* ends the whole process with a segmentation fault.
RelayCrash ==
    /\ tpc = "start"
    /\ ctx.xformation = NULL \/ ctx.task_id = NULL
    /\ tpc' = "crashed"
    /\ hpc' = "crashed"
    /\ UNCHANGED <<env, start_rc, stop_rc, signal_pipe, ctx>>
    /\ UNCHANGED <<factor, sock, ctx_heap, pending, nconn, left_by, accept_errno>>
    /\ UNCHANGED relayVars

\* A relay that looks at the listening socket first: with a client waiting it
\* goes on to accept even though the pipe is readable.  The property of the
\* shutdown order is compared against it.
RelayPollSocketFirst ==
    LET pipe_ready == signal_pipe.rd = "open" /\ signal_pipe.bytes > 0
        sock_ready == sock = "listening" /\ pending # <<>>
    IN  /\ tpc = "poll"
        /\ pipe_ready \/ sock_ready
        /\ IF sock_ready
           THEN /\ tpc' = "accept"
                /\ UNCHANGED <<warned, left_by>>
           ELSE /\ warned' = FALSE
                /\ tpc' = "drain"
                /\ left_by' = "signal"
        /\ UNCHANGED <<msg_counter, aggr_msg_buffer_offset, aggr_msg_buffer, line,
                       incoming_socket, sent, buffered, handled, conn_log, appended>>
        /\ UNCHANGED <<factor, sock, ctx_heap, pending, nconn, accept_errno>>
        /\ UNCHANGED hostVars

\* Lines 241-263: poll on the signal pipe and the listening socket.  With the
\* pipe readable the loop is left, with a warning when a client is waiting;
\* otherwise the relay goes on to accept.
RelayPoll ==
    LET pipe_ready == signal_pipe.rd = "open" /\ signal_pipe.bytes > 0
        sock_ready == sock = "listening" /\ pending # <<>>
    IN  /\ tpc = "poll"
        /\ pipe_ready \/ sock_ready
        /\ IF pipe_ready
           THEN /\ warned' = sock_ready
                /\ tpc' = "drain"
                /\ left_by' = "signal"
           ELSE /\ tpc' = "accept"
                /\ UNCHANGED <<warned, left_by>>
        /\ UNCHANGED <<msg_counter, aggr_msg_buffer_offset, aggr_msg_buffer, line,
                       incoming_socket, sent, buffered, handled, conn_log, appended>>
        /\ UNCHANGED <<factor, sock, ctx_heap, pending, nconn, accept_errno>>
        /\ UNCHANGED hostVars

\* A relay whose thread ends at once when poll fails.
RelayPollFailExit ==
    /\ tpc = "poll"
    /\ tpc' = "exited"
    /\ left_by' = "poll"
    /\ UNCHANGED relayVars
    /\ UNCHANGED <<factor, sock, ctx_heap, pending, nconn, accept_errno>>
    /\ UNCHANGED hostVars

\* Lines 247-250: poll itself fails (it returns -1, for instance when a signal
\* interrupts it), and the loop is left.
RelayPollFail ==
    /\ tpc = "poll"
    /\ tpc' = "drain"
    /\ left_by' = "poll"
    /\ UNCHANGED relayVars
    /\ UNCHANGED <<factor, sock, ctx_heap, pending, nconn, accept_errno>>
    /\ UNCHANGED hostVars

AcceptFaults == {"EINTR", "other"}

\* Lines 265-269: accept takes the first waiting connection.
RelayAccept ==
    /\ tpc = "accept"
    /\ sock = "listening"
    /\ pending # <<>>
    /\ incoming_socket' = <<Head(pending)>>
    /\ pending' = Tail(pending)
    /\ conn_log' = Append(conn_log, [op |-> "accept", conn |-> Head(pending).id])
    /\ accept_errno' = "none"
    /\ tpc' = "recv"
    /\ UNCHANGED <<msg_counter, aggr_msg_buffer_offset, aggr_msg_buffer, line,
                   warned, sent, buffered, handled, appended>>
    /\ UNCHANGED <<factor, sock, ctx_heap, nconn, left_by>>
    /\ UNCHANGED hostVars

\* A relay for which every failure of accept is fatal.
RelayAcceptFailFatal(fault) ==
    /\ tpc = "accept"
    /\ tpc' = "drain"
    /\ left_by' = "accept"
    /\ accept_errno' = fault
    /\ UNCHANGED relayVars
    /\ UNCHANGED <<factor, sock, ctx_heap, pending, nconn>>
    /\ UNCHANGED hostVars

\* Lines 270-277: accept fails.  EINTR goes to the next label (which closes
\* the descriptor -1, to no effect) and back to poll; any other error leaves
\* the loop.
RelayAcceptFail(fault) ==
    /\ tpc = "accept"
    /\ tpc' = IF fault = "EINTR" THEN "poll" ELSE "drain"
    /\ left_by' = IF fault = "EINTR" THEN left_by ELSE "accept"
    /\ accept_errno' = fault
    /\ UNCHANGED relayVars
    /\ UNCHANGED <<factor, sock, ctx_heap, pending, nconn>>
    /\ UNCHANGED hostVars

(* ----------------------------- send_msg_to_mq -------------------------- *)

\* How a call of send_msg_to_mq may end: the POST succeeded, or it failed
\* (curl_easy_init returned NULL, or curl_easy_perform reported an error; both
\* are printed and nothing else).  The function returns nothing, so its
\* caller sees none of this.
SendResults == {"ok", "error"}

\* One call of send_msg_to_mq(msg_buff, ctx): the routing key and the payload
\* of the envelope it posts, and how the call ended.
send_msg_to_mq(msg_buff, c, res) ==
    [routing_key |-> c.wf_uuid, payload |-> CStr(msg_buff), res |-> res]

(* ------------------------------ aggregation ---------------------------- *)

\* Line 304: snprintf(aggr_msg_buffer + aggr_msg_buffer_offset, BUFSIZ,
\* "%s:delim1:", enriched_line): the buffer afterwards and the return value.
Aggregate(buf, off, enriched) ==
    LET w == Snprintf(BUFSIZ, enriched \o Delim)
    IN  [buf |-> Store(buf, off, w.stored \o <<NUL>>), n |-> w.n]

\* Line 305: the test that rejects the record.
AggregationFails(n) == n < 0 \/ n > BUFSIZ

\* Line 313: the batch is sent when the counter reaches the factor.
BatchFull(cnt) == cnt = factor

\* An aggregator that keeps a batch whose send failed, to send it again later.
AfterSendKeepFailed(res, cnt, off, buf) ==
    IF res = "ok" THEN [cnt |-> 0, off |-> 0, buf |-> <<>>]
                  ELSE [cnt |-> cnt, off |-> off, buf |-> buf]

\* Lines 315-317: the aggregator after send_msg_to_mq returned, whatever came
\* of the send.
AfterSend(res, cnt, off, buf) == [cnt |-> 0, off |-> 0, buf |-> <<>>]

RecvFaults == {"none", "error"}

\* A relay that goes back to poll without closing the connection.
close_incoming_skipped(s, log) == [incoming_socket |-> s, log |-> log]

\* Line 321, the next label: close(incoming_socket).
close_incoming(s, log) ==
    [incoming_socket |-> <<>>,
     log |-> log \o [i \in 1..Len(s) |-> [op |-> "close", conn |-> s[i].id]]]

\* The client ended its line with a newline.
Terminated(ds) == FirstIndex(Concat(ds), NL) # 0

\* Lines 279-322: the relay reads once from the accepted connection and
\* handles what it finds in line[]; every path ends at the next label, which
\* closes the connection, and goes back to poll.
RelayRecv(rfault) ==
    LET conn == incoming_socket[1]
        bytes == IF conn.deliveries = <<>> THEN <<>> ELSE Head(conn.deliveries)
        line1 == CutAtNewline(Recv(line, bytes))
        enriched == EnrichedLine(line1, ctx)
        aggr == Aggregate(aggr_msg_buffer, aggr_msg_buffer_offset, enriched)
        cnt1 == msg_counter + 1
        off1 == aggr_msg_buffer_offset + aggr.n
        reset(res) == AfterSend(res, cnt1, off1, aggr.buf)
        rec == [conn |-> conn.id, text |-> enriched]
        entry(outcome) == [conn |-> conn.id, raw |-> RawLine(conn.deliveries),
                           terminated |-> Terminated(conn.deliveries),
                           outcome |-> outcome, enriched |-> enriched]
        closed == close_incoming(incoming_socket, conn_log)
    IN  /\ tpc = "recv"
        /\ incoming_socket # <<>>
        /\ IF rfault = "error"
           THEN /\ handled' = <<[entry("recv_error") EXCEPT !.enriched = <<>>]>>
                /\ UNCHANGED <<line, aggr_msg_buffer, msg_counter,
                               aggr_msg_buffer_offset, sent, buffered, appended>>
           ELSE /\ line' = line1
                /\ IF ~StartsWithTs(line1)
                   THEN /\ handled' = <<[entry("malformed") EXCEPT !.enriched = <<>>]>>
                        /\ UNCHANGED <<aggr_msg_buffer, msg_counter,
                                       aggr_msg_buffer_offset, sent, buffered,
                                       appended>>
                   ELSE IF AggregationFails(aggr.n)
                   THEN /\ handled' = <<entry("aggr_error")>>
                        /\ aggr_msg_buffer' = aggr.buf
                        /\ UNCHANGED <<msg_counter, aggr_msg_buffer_offset, sent,
                                       buffered, appended>>
                   ELSE IF BatchFull(cnt1)
                   THEN /\ handled' = <<entry("sent")>>
                        /\ appended' = Append(appended, conn.id)
                        /\ \E res \in SendResults :
                            /\ sent' = Append(sent,
                                    [call |-> send_msg_to_mq(aggr.buf, ctx, res),
                                     recs |-> Append(buffered, rec),
                                     final |-> FALSE])
                            /\ msg_counter' = reset(res).cnt
                            /\ aggr_msg_buffer_offset' = reset(res).off
                            /\ aggr_msg_buffer' = reset(res).buf
                            /\ buffered' = IF reset(res).cnt = 0 THEN <<>>
                                           ELSE Append(buffered, rec)
                   ELSE /\ handled' = <<entry("buffered")>>
                        /\ appended' = Append(appended, conn.id)
                        /\ msg_counter' = cnt1
                        /\ aggr_msg_buffer_offset' = off1
                        /\ aggr_msg_buffer' = aggr.buf
                        /\ buffered' = Append(buffered, rec)
                        /\ UNCHANGED sent
        /\ incoming_socket' = closed.incoming_socket
        /\ conn_log' = closed.log
        /\ tpc' = "poll"
        /\ UNCHANGED warned
        /\ UNCHANGED <<factor, sock, ctx_heap, pending, nconn, left_by, accept_errno>>
        /\ UNCHANGED hostVars

\* A relay that sends a final message whether or not anything is buffered.
FinalSendAlways(cnt) == cnt >= 0

\* Line 325: a final message is sent when at least one record is buffered.
FinalSendNeeded(cnt) == cnt > 0

\* release_monitoring_context(ctx): the fields and the context are freed.
release_monitoring_context(heap) == "freed"

\* Lines 324-334: what is buffered is sent, the listening socket is closed
\* (the connections still waiting on it are lost), the context is released
\* and the thread exits.
RelayDrain ==
    /\ tpc = "drain"
    /\ IF FinalSendNeeded(msg_counter)
       THEN \E res \in SendResults :
                sent' = Append(sent, [call |-> send_msg_to_mq(aggr_msg_buffer, ctx, res),
                                      recs |-> buffered, final |-> TRUE])
       ELSE UNCHANGED sent
    /\ sock' = "closed"
    /\ pending' = <<>>
    /\ ctx_heap' = release_monitoring_context(ctx_heap)
    /\ tpc' = "exited"
    /\ UNCHANGED <<msg_counter, aggr_msg_buffer_offset, aggr_msg_buffer, line,
                   incoming_socket, warned, buffered, handled, conn_log, appended>>
    /\ UNCHANGED <<factor, nconn, left_by, accept_errno>>
    /\ UNCHANGED hostVars

(* -------------------------- stop_monitoring_thread --------------------- *)

\* What write(signal_pipe[1], &msg, 1) may return.
WriteResults == {1, 0, -1}

\* Lines 392-397: the host writes one byte to the pipe; when the write does
\* not return a positive count, stop returns that count at once.
StopWrite(rc) ==
    /\ hpc = "running"
    /\ IF rc <= 0
       THEN /\ stop_rc' = <<rc>>
            /\ hpc' = "stop_returned"
            /\ UNCHANGED signal_pipe
       ELSE /\ signal_pipe' = [signal_pipe EXCEPT !.bytes = @ + 1]
            /\ hpc' = "joining"
            /\ UNCHANGED stop_rc
    /\ UNCHANGED <<env, start_rc, ctx>>
    /\ UNCHANGED <<factor, sock, ctx_heap, tpc, pending, nconn, left_by, accept_errno>>
    /\ UNCHANGED relayVars

\* A stop that does not wait for the relay thread.
JoinedAtOnce == TRUE

\* pthread_join(monitoring_thread, NULL) returns once the thread has exited.
Joined == tpc = "exited"

\* Lines 399-406: the host waits for the relay thread, closes both ends of
\* the pipe and returns 0.
StopJoin ==
    /\ hpc = "joining"
    /\ Joined
    /\ signal_pipe' = [signal_pipe EXCEPT !.rd = "closed", !.wr = "closed"]
    /\ stop_rc' = <<0>>
    /\ hpc' = "stop_returned"
    /\ UNCHANGED <<env, start_rc, ctx>>
    /\ UNCHANGED <<factor, sock, ctx_heap, tpc, pending, nconn, left_by, accept_errno>>
    /\ UNCHANGED relayVars

(* -------------------------------- clients ------------------------------ *)

\* A client process connects to the published port; the connection waits in
\* the listen queue.  The host runs its clients between start and stop (it
\* calls stop once wait() has returned), so a client connects before stop is
\* called; its connection may still be waiting when stop is.
ClientConnect(p) ==
    /\ hpc = "running"
    /\ sock = "listening"
    /\ Len(pending) < Backlog
    /\ nconn < MaxConns
    /\ nconn' = nconn + 1
    /\ pending' = Append(pending, [id |-> nconn + 1, deliveries |-> p])
    /\ UNCHANGED <<factor, sock, ctx_heap, tpc, left_by, accept_errno>>
    /\ UNCHANGED relayVars
    /\ UNCHANGED hostVars

(* ----------------------------- specification --------------------------- *)

Intervals == {60}

Next ==
    \/ \E i \in Intervals, f \in StartFaults : Start(i, f)
    \/ RelayBegin
    \/ RelayCrash
    \/ RelayPoll
    \/ RelayPollFail
    \/ RelayAccept
    \/ \E f \in AcceptFaults : RelayAcceptFail(f)
    \/ \E f \in RecvFaults : RelayRecv(f)
    \/ RelayDrain
    \/ \E rc \in WriteResults : StopWrite(rc)
    \/ StopJoin
    \/ \E p \in Payloads : ClientConnect(p)

Spec == Init /\ [][Next]_vars

\* The steps the relay thread takes by itself whenever it is scheduled and
\* the system call it is in can return: it starts, poll returns once the pipe
\* or the socket is readable, accept returns the waiting connection.
RelayRuns ==
    \/ RelayBegin
    \/ RelayPoll
    \/ RelayAccept

\* The program with its threads scheduled: the relay thread goes on whenever
\* it can, and pthread_join returns once the thread has exited.  Nothing
\* forces a system call to fail, the process to crash, a client to connect,
\* the host to call stop, or recv and send_msg_to_mq (which wait for the
\* client and for the broker) to return.
FairSpec == Spec /\ WF_vars(RelayRuns) /\ WF_vars(StopJoin)

(* ------------------------------ properties ---------------------------- *)

Last(s) == s[Len(s)]

\* The batch text of a sequence of records: each followed by the delimiter.
RECURSIVE Join(_)
Join(recs) == IF recs = <<>> THEN <<>> ELSE Head(recs).text \o Delim \o Join(Tail(recs))

\* A batch text carries exactly the records recs: it is their texts in
\* arrival order, each followed by the delimiter.  (A delimiter cut short
\* behind the last record is not held against the batch.)
Carries(payload, recs) ==
    LET joined == Join(recs)
    IN  /\ recs # <<>>
        /\ \E cut \in 0..Len(Delim) : payload = Take(joined, Len(joined) - cut)

\* The indices of the calls of send_msg_to_mq made after the loop was left.
FinalCalls == {i \in DOMAIN sent : sent[i].final}

\* The host's write of the shutdown byte succeeded.
Signalled == signal_pipe.bytes > 0

AllReleased ==
    /\ sent = <<>>
    /\ sock = "closed"
    /\ signal_pipe.rd = "closed"
    /\ signal_pipe.wr = "closed"
    /\ ctx_heap = "freed"
    /\ tpc = "exited"

TsPrefix == <<"t", "s", "=">>

\* The connections whose records a sequence of records holds.
Conns(recs) == {recs[j].conn : j \in DOMAIN recs}

\* C4: a connection whose line (the bytes the client sent, up to the first
\* newline or the end of the connection) does not begin with "ts=" is
\* discarded: the relay neither enriches nor appends anything for it, and no
\* record of it is buffered or was handed to send_msg_to_mq.
C4_Discarded ==
    (handled # <<>> /\ ~IsPrefix(TsPrefix, handled[1].raw)) =>
        /\ handled[1].outcome \in {"malformed", "recv_error"}
        /\ handled[1].enriched = <<>>
        /\ handled[1].conn \notin Conns(buffered)
        /\ \A i \in DOMAIN sent : handled[1].conn \notin Conns(sent[i].recs)

\* A pointer's string, the empty string for the null pointer.
OrEmpty(v) == IF v = NULL THEN <<>> ELSE v

\* The six tokens a record is to end with: key=value, separated by spaces, in
\* the fixed order, an absent optional value being empty.
SixTokens(c) ==
    <<" ", "w", "f", "_", "u", "u", "i", "d", "=">> \o OrEmpty(c.wf_uuid)
      \o <<" ", "w", "f", "_", "l", "a", "b", "e", "l", "=">> \o OrEmpty(c.wf_label)
      \o <<" ", "d", "a", "g", "_", "j", "o", "b", "_", "i", "d", "=">> \o OrEmpty(c.dag_job_id)
      \o <<" ", "c", "o", "n", "d", "o", "r", "_", "j", "o", "b", "_", "i", "d", "=">>
      \o OrEmpty(c.condor_job_id)
      \o <<" ", "x", "f", "o", "r", "m", "a", "t", "i", "o", "n", "=">> \o OrEmpty(c.xformation)
      \o <<" ", "t", "a", "s", "k", "_", "i", "d", "=">> \o OrEmpty(c.task_id)

IsSuffix(p, s) == Len(p) <= Len(s) /\ SubSeq(s, Len(s) - Len(p) + 1, Len(s)) = p

\* C5: for a connection whose line begins with "ts=" (and whose recv did not
\* fail), the relay builds an enriched record, and that record is the line
\* as the client sent it followed by exactly the six tokens.
C5_Enriched ==
    (handled # <<>> /\ IsPrefix(TsPrefix, handled[1].raw)
                    /\ handled[1].outcome # "recv_error") =>
        /\ handled[1].outcome # "malformed"
        /\ handled[1].enriched = handled[1].raw \o SixTokens(ctx)

\* C6: when an optional key is unset, every record handed to send_msg_to_mq
\* ends with the six tokens in which the absent value is the empty string.
C6_EmptyOptional ==
    (ctx.xformation = NULL \/ ctx.task_id = NULL) =>
        \A i \in DOMAIN sent : \A j \in DOMAIN sent[i].recs :
            IsSuffix(SixTokens(ctx), sent[i].recs[j].text)

PipeReady == signal_pipe.rd = "open" /\ signal_pipe.bytes > 0

SockReady == sock = "listening" /\ pending # <<>>

\* C7: a relay step taken at poll while the pipe and the listening socket are
\* both readable leaves the loop without accepting the waiting connection,
\* and once the loop is left nothing is accepted, read, enriched or appended.
C7_NoAcceptAfterSignal ==
    [][/\ (tpc = "poll" /\ PipeReady /\ SockReady /\ tpc' # "poll") =>
              /\ tpc' = "drain"
              /\ pending' = pending
              /\ incoming_socket' = <<>>
       /\ tpc \in {"drain", "exited"} =>
              /\ tpc' \in {"drain", "exited"}
              /\ incoming_socket' = <<>>
              /\ UNCHANGED <<line, msg_counter, aggr_msg_buffer_offset,
                             aggr_msg_buffer, buffered, handled>>]_vars

C7_Witness == tpc = "drain" /\ left_by = "signal" /\ warned /\ pending # <<>>

C9_FailedSendDropped ==
    /\ [](\A i, j \in DOMAIN sent :
              i < j => Conns(sent[i].recs) \cap Conns(sent[j].recs) = {})
    /\ [][(/\ Len(sent') = Len(sent) + 1
           /\ ~Last(sent').final
           /\ Last(sent').call.res = "error") =>
              /\ msg_counter' = 0
              /\ aggr_msg_buffer_offset' = 0
              /\ aggr_msg_buffer' = <<>>
              /\ buffered' = <<>>
              /\ tpc' = "poll"]_vars

\* A send inside the loop failed, and a connection accepted after it had its
\* record appended.
C9_Witness ==
    \E i \in DOMAIN sent :
        /\ sent[i].call.res = "error"
        /\ ~sent[i].final
        /\ handled # <<>>
        /\ handled[1].outcome \in {"buffered", "sent"}
        /\ \A c \in Conns(sent[i].recs) : c < handled[1].conn

MissingRequired == \E i \in DOMAIN RequiredKeys : env[RequiredKeys[i]] = NULL

\* C10: when start() has failed at the check of a required key, the relay
\* thread was never created, the listening socket is not left open and none
\* of the endpoint keys is left published in the environment.
C10_NoPartialStart ==
    (hpc = "start_failed" /\ MissingRequired /\ ctx_heap = "allocated") =>
        /\ tpc = "none"
        /\ sock # "listening"
        /\ \A k \in PublishedKeys : env[k] = NULL

AllocateFailed == hpc = "start_failed" /\ ctx_heap = "none"

\* C12: whenever create_ephemeral_endpoint has returned an error, the socket
\* it opened (if it opened one) is not open any more.
C12_SocketReleased == AllocateFailed => sock \in {"none", "closed"}

\* In a log of accept and close calls every accept is followed by the close
\* of the connection it returned, before the next accept, and no connection
\* is accepted twice.
Alternates(log) ==
    /\ \A i \in DOMAIN log :
          IF i % 2 = 1 THEN log[i].op = "accept"
          ELSE log[i].op = "close" /\ log[i].conn = log[i - 1].conn
    /\ \A i, j \in DOMAIN log :
          (i < j /\ log[i].op = "accept" /\ log[j].op = "accept") =>
              log[i].conn # log[j].conn

\* C13: every accepted connection is closed exactly once, before the next is
\* accepted; whenever the relay is at poll (or at accept, or has left the
\* loop) every accepted connection has been closed and none is open, and
\* while one is being handled it is the only one open.
C13_ClosedOnce ==
    /\ Alternates(conn_log)
    /\ tpc \in {"poll", "accept", "drain", "exited"} =>
          Len(conn_log) % 2 = 0 /\ incoming_socket = <<>>
    /\ tpc = "recv" =>
          /\ Len(conn_log) % 2 = 1
          /\ Len(incoming_socket) = 1
          /\ incoming_socket[1].id = Last(conn_log).conn

\* Two connections were handled, the second one rejected by the aggregation,
\* and the relay has exited.
C13_Witness ==
    /\ tpc = "exited"
    /\ Len(conn_log) = 4
    /\ handled # <<>>
    /\ handled[1].outcome = "aggr_error"

\* The aggregator: the counter, the offset, the buffer, and what was sent.
aggrVars == <<msg_counter, aggr_msg_buffer_offset, aggr_msg_buffer, buffered,
              sent, appended>>

\* The step in which accept returns, with the given errno.
AcceptReturns(e) == tpc = "accept" /\ tpc' # "accept" /\ accept_errno' = e

\* C14: an accept that fails with EINTR takes the relay back to poll with the
\* aggregator unchanged and the socket still listening; an accept that fails
\* otherwise takes it out of the loop with the aggregator unchanged, and the
\* relay that left the loop this way sends what is buffered (one final call
\* on the aggregation buffer if the counter is positive, none otherwise),
\* closes the listening socket and exits.
C14_AcceptFailure ==
    [][/\ AcceptReturns("EINTR") =>
              /\ tpc' = "poll"
              /\ sock' = "listening"
              /\ UNCHANGED aggrVars
       /\ AcceptReturns("other") =>
              /\ tpc' = "drain"
              /\ UNCHANGED aggrVars
       /\ (tpc = "drain" /\ left_by = "accept" /\ tpc' # "drain") =>
              /\ tpc' = "exited"
              /\ sock' = "closed"
              /\ IF msg_counter > 0
                 THEN /\ Len(sent') = Len(sent) + 1
                      /\ Last(sent').final
                      /\ Last(sent').recs = buffered
                      /\ Last(sent').call.payload = CStr(aggr_msg_buffer)
                 ELSE sent' = sent]_vars

\* The relay left its loop on a failed accept with a record buffered, sent
\* it and exited.
C14_Witness ==
    /\ tpc = "exited"
    /\ left_by = "accept"
    /\ accept_errno = "other"
    /\ buffered # <<>>
    /\ sent # <<>>
    /\ Last(sent).final

\* The relay is in its loop: waiting in poll, in accept, or handling a
\* connection.
InLoop == tpc \in {"poll", "accept", "recv"}

\* C15: the relay leaves its loop only to the code behind it, for one of the
\* three reasons; it exits only from there, in a step that makes one final
\* call of send_msg_to_mq if the counter is positive and none otherwise, and
\* that closes the listening socket; the socket is listening as long as the
\* relay is in its loop, is closed by no other step of a started relay, and
\* once closed stays closed; an exited relay sends nothing more.
C15_ExitThroughDrain ==
    /\ [](InLoop => sock = "listening")
    /\ [][/\ (InLoop /\ tpc' \notin {"poll", "accept", "recv"}) =>
                 /\ tpc' = "drain"
                 /\ left_by' \in {"signal", "accept", "poll"}
                 /\ sock' = "listening"
                 /\ sent' = sent
          /\ (tpc' = "exited" /\ tpc # "exited") =>
                 /\ tpc = "drain"
                 /\ sock = "listening"
                 /\ sock' = "closed"
                 /\ IF msg_counter > 0
                    THEN Len(sent') = Len(sent) + 1 /\ Last(sent').final
                    ELSE sent' = sent
          /\ (sock' = "closed" /\ sock # "closed" /\ tpc # "none") =>
                 tpc = "drain" /\ tpc' = "exited"
          /\ sock = "closed" => sock' = "closed"
          /\ tpc = "exited" => tpc' = "exited" /\ sent' = sent]_vars

\* The relay left its loop because poll failed, sent the record it had
\* buffered and exited.
C15_Witness ==
    /\ tpc = "exited"
    /\ left_by = "poll"
    /\ sock = "closed"
    /\ msg_counter > 0
    /\ Cardinality(FinalCalls) = 1

\* stop() has returned 0 and the relay thread has exited.
ShutDown == tpc = "exited" /\ hpc = "stop_returned" /\ stop_rc = <<0>>

\* Every recv on a connection and every call of send_msg_to_mq returns: the
\* relay is never for ever in the handling of a connection or in the final
\* send.
CallsReturn == []<>(tpc \notin {"recv", "drain"})

C17_WholeLine ==
    (/\ handled # <<>>
     /\ handled[1].outcome # "recv_error"
     /\ handled[1].terminated
     /\ Len(handled[1].raw) < BUFSIZ) =>
        CStr(line) = handled[1].raw

\* C18: the record counted for a connection is built from bytes of that
\* connection only: whenever a connection had a record appended, it sent at
\* least one byte, and the line the record was built from is the beginning
\* of what that connection sent.
C18_OwnBytesOnly ==
    (handled # <<>> /\ handled[1].outcome \in {"buffered", "sent"}) =>
        /\ handled[1].raw # <<>>
        /\ IsPrefix(CStr(line), handled[1].raw)

\* The connections of a sequence of records, in order.
ConnSeq(recs) == [j \in DOMAIN recs |-> recs[j].conn]

\* The connections of the records of all calls of send_msg_to_mq, in order.
RECURSIVE Forwarded(_)
Forwarded(calls) ==
    IF calls = <<>> THEN <<>>
    ELSE ConnSeq(Head(calls).recs) \o Forwarded(Tail(calls))

\* The records counted so far are those of the calls made plus those
\* buffered, in arrival order, none of them twice.
Accounted ==
    /\ tpc = "poll" => Forwarded(sent) \o ConnSeq(buffered) = appended
    /\ tpc = "exited" => Forwarded(sent) = appended
    /\ \A i, j \in DOMAIN appended : i < j => appended[i] < appended[j]

RelayAlive == tpc \in {"start", "poll", "accept", "recv", "drain"}

\* C20: as long as the relay thread has not exited both ends of the pipe are
\* open; the host closes them only in a step taken when the thread has
\* exited; the pipe never holds more than the one byte the host wrote, and
\* only a step of the host in stop() changes it.
C20_PipeOutlivesRelay ==
    /\ [](RelayAlive => signal_pipe.rd = "open" /\ signal_pipe.wr = "open")
    /\ [](signal_pipe.bytes \in {0, 1})
    /\ [][/\ (signal_pipe'.rd # signal_pipe.rd \/ signal_pipe'.wr # signal_pipe.wr) =>
                 \/ hpc = "idle"
                 \/ /\ hpc = "joining"
                    /\ tpc = "exited"
                    /\ signal_pipe'.rd = "closed"
                    /\ signal_pipe'.wr = "closed"
          /\ signal_pipe'.bytes # signal_pipe.bytes =>
                 /\ hpc = "running"
                 /\ hpc' = "joining"
                 /\ signal_pipe'.bytes = signal_pipe.bytes + 1]_vars

\* stop() has closed the pipe after a relay that handled a connection and
\* left a client waiting.
C20_Witness ==
    /\ signal_pipe.rd = "closed"
    /\ signal_pipe.wr = "closed"
    /\ tpc = "exited"
    /\ warned
    /\ handled # <<>>

====
